---- MODULE Spec2Model ----
(***************************************************************************)
(* kubectl-trace: the `run` command (pkg/cmd/run.go).                      *)
(*                                                                         *)
(* One invocation of the command is a process p: cobra parses the flags    *)
(* into RunOptions, PreRunE calls Validate, RunE calls Complete and Run.   *)
(* Run builds a TraceJob, calls TraceJobClient.CreateJob and, with         *)
(* --attach, installs the signal context and calls Attacher.AttachJob.     *)
(* The packages tracejob, attacher, signals and meta are modelled from     *)
(* the design document; the control plane is the shared remote state.      *)
(***************************************************************************)
EXTENDS Integers, Sequences, FiniteSets, TLC

\* ------------------------------------------------------------------ bounds
MaxTextLen == 1
MaxArgs == 3
IdLen == 1

\* ------------------------------------------------------------- value sets
Alphabet == {"a"}
IdAlphabet == {"0", "1"}

RECURSIVE SeqsOfLen(_, _)
SeqsOfLen(S, n) ==
    IF n = 0 THEN {<<>>}
    ELSE {Append(s, x) : s \in SeqsOfLen(S, n - 1), x \in S}

SeqsUpTo(S, n) == UNION {SeqsOfLen(S, k) : k \in 0..n}

\* program texts, flag values and file names: strings of bounded length
Texts == SeqsUpTo(Alphabet, MaxTextLen)
\* positional argument lists
ArgLists == SeqsUpTo({<<"n">>}, MaxArgs)
\* identifiers produced by uuid.NewUUID
IDs == SeqsOfLen(IdAlphabet, IdLen)

NoErr == "nil"
NoJob == [ID |-> <<>>, Name |-> <<>>, Namespace |-> <<>>, Hostname |-> <<>>, Program |-> <<>>, built |-> FALSE]

\* ------------------------------------------------------- error strings
runCommand == "run"
usageString == "(POD | TYPE/NAME)"
requiredArgErrString == "(POD | TYPE/NAME) is a required argument for the run command"
containerAsArgOrFlagErrString == "specify container inline as argument or via its flag"
bpftraceMissingErrString == "the bpftrace program is mandatory"
bpftraceDoubleErrString == "specify the bpftrace program either via an external file or via a literal string, not both"
bpftraceEmptyErrString == "the bpftrace programm cannot be empty"
openFileErrString == "error opening program file"
podUnsupportedErrString == "running bpftrace programs against pods is not supported yet, see: https://github.com/fntlnz/kubectl-trace/issues/3"
labelMissingErrString == "label kubernetes.io/hostname not found in node"
firstArgErrString == "first argument must be (POD | TYPE/NAME)"
namespaceErrString == "cannot load namespace from kubeconfig"
notFoundErrString == "nodes not found"
restConfigErrString == "cannot build rest config"
clientErrString == "cannot build client for config"
alreadyExistsErrString == "already exists"
rejectedErrString == "rejected by the control plane"

ObjectNamePrefix == <<"k", "u", "b", "e", "c", "t", "l", "-", "t", "r", "a", "c", "e", "-">>

\* ------------------------------------------------------------ the state
VARIABLES
    cli,      \* per invocation: the parsed command line (never changes)
    pc,       \* per invocation: position in the command's control flow
    o,        \* per invocation: the RunOptions fields
    obj,      \* per invocation: kind of the object the target lookup returned
    tj,       \* per invocation: the TraceJob built by Run
    err,      \* per invocation: errors returned by Validate, Complete, CreateJob, Run, RunE
    out,      \* per invocation: writes to IOStreams.Out
    errOut,   \* per invocation: writes to IOStreams.ErrOut
    events,   \* per invocation: calls made, in order
    sig,      \* per invocation: signal context (installed, cancelled, where the first signal hit)
    att,      \* per invocation: the Attacher's state
    configs,  \* control plane: config objects by name
    units,    \* control plane: execution units by name
    deleted   \* per invocation: an explicit DeleteJobs was issued for its TraceJob

vars == <<cli, pc, o, obj, tj, err, out, errOut, events, sig, att, configs, units, deleted>>

Procs == {1, 2}

\* ------------------------------------------------------ the command line
\* A flag that was not given keeps its default (the empty string, false).
CommandLines ==
    {[args |-> a, containerChanged |-> cc, container |-> cv,
      evalChanged |-> ec, eval |-> ev, filenameChanged |-> fc, filename |-> fv,
      attach |-> at] :
        a \in ArgLists, cc \in BOOLEAN, cv \in {<<>>, <<"c">>},
        ec \in BOOLEAN, ev \in Texts, fc \in BOOLEAN, fv \in Texts, at \in BOOLEAN}

WellFormedCommandLine(c) ==
    /\ (~c.containerChanged => c.container = <<>>)
    /\ (~c.evalChanged => c.eval = <<>>)
    /\ (~c.filenameChanged => c.filename = <<>>)

\* cmd.Flags().StringVarP / BoolVarP bind the flags to the option fields
NewRunOptions(c) ==
    [container |-> c.container, eval |-> c.eval, program |-> c.filename,
     resourceArg |-> <<>>, attach |-> c.attach, nodeName |-> <<>>,
     namespace |-> <<>>, explicitNamespace |-> FALSE, clientConfig |-> FALSE]

\* ----------------------------------------------------- RunOptions.Validate
\* The result is the error returned and the options as Validate leaves them.
ValidateArgs(c, oo) ==
    IF Len(c.args) = 1
    THEN [err |-> NoErr, o |-> [oo EXCEPT !.resourceArg = c.args[1]]]
    ELSE IF Len(c.args) = 2
    THEN [err |-> IF c.containerChanged THEN containerAsArgOrFlagErrString ELSE NoErr,
          o |-> [oo EXCEPT !.resourceArg = c.args[1], !.container = c.args[2]]]
    ELSE [err |-> requiredArgErrString, o |-> oo]

ValidateProgramSwapped(c, oo) ==
    IF (c.evalChanged /\ Len(oo.eval) = 0) \/ (c.filenameChanged /\ Len(oo.program) = 0)
    THEN bpftraceEmptyErrString
    ELSE IF c.evalChanged = c.filenameChanged
    THEN bpftraceDoubleErrString
    ELSE NoErr

ValidateProgram(c, oo) ==
    IF ~c.evalChanged /\ ~c.filenameChanged
    THEN bpftraceMissingErrString
    ELSE IF c.evalChanged = c.filenameChanged
    THEN bpftraceDoubleErrString
    ELSE IF (c.evalChanged /\ Len(oo.eval) = 0) \/ (c.filenameChanged /\ Len(oo.program) = 0)
    THEN bpftraceEmptyErrString
    ELSE NoErr

ValidateResult(c, oo) ==
    LET a == ValidateArgs(c, oo) IN
    IF a.err # NoErr THEN a
    ELSE [err |-> ValidateProgram(c, a.o), o |-> a.o]

\* ----------------------------------------------------- RunOptions.Complete
\* ioutil.ReadFile: an error, or the content of the file
ReadErr == [ok |-> FALSE, data |-> <<>>]
ReadResults == {ReadErr} \cup {[ok |-> TRUE, data |-> t] : t \in Texts}
ObjectKinds == {"node", "nodeNoLabel", "pod", "other", "notfound"}
NodeHostname == <<"h">>
DefaultNamespace == <<"d">>

\* "Prepare program": the file named by --filename is read, else --eval is used
PrepareProgram(oo, read) ==
    IF Len(oo.program) > 0
    THEN IF ~read.ok
         THEN [err |-> openFileErrString, o |-> oo]
         ELSE [err |-> NoErr, o |-> [oo EXCEPT !.program = read.data]]
    ELSE [err |-> NoErr, o |-> [oo EXCEPT !.program = oo.eval]]

\* the type switch on the object returned by the lookup
CheckTargetIgnoresLabel(oo, kind) ==
    CASE kind = "pod" -> [err |-> podUnsupportedErrString, o |-> oo]
      [] kind = "node" -> [err |-> NoErr, o |-> [oo EXCEPT !.nodeName = NodeHostname]]
      [] kind = "nodeNoLabel" -> [err |-> NoErr, o |-> [oo EXCEPT !.nodeName = <<>>]]
      [] OTHER -> [err |-> firstArgErrString, o |-> oo]

CheckTarget(oo, kind) ==
    CASE kind = "pod" -> [err |-> podUnsupportedErrString, o |-> oo]
      [] kind = "node" -> [err |-> NoErr, o |-> [oo EXCEPT !.nodeName = NodeHostname]]
      [] kind = "nodeNoLabel" -> [err |-> labelMissingErrString, o |-> oo]
      [] OTHER -> [err |-> firstArgErrString, o |-> oo]

\* "Prepare namespace": the namespace of the kubeconfig, or its error
PrepareNamespace(oo, nsFails) ==
    IF nsFails
    THEN [err |-> namespaceErrString, o |-> oo]
    ELSE [err |-> NoErr, o |-> [oo EXCEPT !.namespace = DefaultNamespace]]

\* From the answer of the lookup to the end of Complete: the error of the
\* lookup, the type switch, then "Prepare client"
ResolveTarget(oo, kind, cfgFails) ==
    IF kind = "notfound"
    THEN [err |-> notFoundErrString, o |-> oo]
    ELSE LET t == CheckTarget(oo, kind) IN
         IF t.err # NoErr THEN t
         ELSE IF cfgFails
         THEN [err |-> restConfigErrString, o |-> t.o]
         ELSE [err |-> NoErr, o |-> [t.o EXCEPT !.clientConfig = TRUE]]

\* The whole of Complete: looked says whether the remote lookup was made.
CompleteResult(oo, read, nsFails, kind, cfgFails) ==
    LET p1 == PrepareProgram(oo, read) IN
    IF p1.err # NoErr THEN [err |-> p1.err, o |-> p1.o, looked |-> FALSE]
    ELSE LET p2 == PrepareNamespace(p1.o, nsFails) IN
         IF p2.err # NoErr THEN [err |-> p2.err, o |-> p2.o, looked |-> FALSE]
         ELSE LET t == ResolveTarget(p2.o, kind, cfgFails) IN
              [err |-> t.err, o |-> t.o, looked |-> TRUE]

\* ------------------------------------------------------------ TraceJob
\* fmt.Sprintf("%s%s", meta.ObjectNamePrefix, string(juid))
TraceJobNamePrefixOnly(id) == ObjectNamePrefix

TraceJobName(id) == ObjectNamePrefix \o id

NewTraceJob(oo, id) ==
    [ID |-> id, Name |-> TraceJobName(id), Namespace |-> oo.namespace,
     Hostname |-> oo.nodeName, Program |-> oo.program, built |-> TRUE]

\* fmt.Fprintf(o.IOStreams.Out, "trace %s created\n", tj.ID)
CreatedMessage(id) == <<"trace ", id, " created\n">>

\* ------------------------------------------------- the control plane
Statuses == {"Unknown", "Pending", "Running", "Succeeded", "Failed", "Stopped"}

\* a unit as the control plane stores it: not yet visible to readers, not scheduled
NewUnit == [visible |-> FALSE, conditions |-> {}, phase |-> "Pending"]

\* Status Tracker: the lifecycle state derived from one observation
StatusOf(u) ==
    IF "Failed" \in u.conditions THEN "Failed"
    ELSE IF "Complete" \in u.conditions THEN "Succeeded"
    ELSE IF u.phase = "Running" THEN "Running"
    ELSE "Pending"

ExecutionStatus(us, name) ==
    IF name \notin DOMAIN us THEN "Unknown"
    ELSE IF ~us[name].visible THEN "Unknown"
    ELSE StatusOf(us[name])

Put(f, k, v) == [x \in DOMAIN f \cup {k} |-> IF x = k THEN v ELSE f[x]]
Drop(f, k) == [x \in DOMAIN f \ {k} |-> f[x]]

NoAttach == [seen |-> {}, lastObs |-> "none", opened |-> FALSE, openStatus |-> "none",
             result |-> "none", err |-> NoErr]
NoSig == [installed |-> FALSE, cancelled |-> FALSE, at |-> "none"]
NoErrs == [validate |-> NoErr, complete |-> NoErr, create |-> NoErr, run |-> NoErr, handler |-> NoErr]

\* ------------------------------------------------------------------ Init
Init ==
    /\ cli \in [{1} -> {c \in CommandLines : WellFormedCommandLine(c)}]
    /\ pc = [p \in {1} |-> "validate"]
    /\ o = [p \in {1} |-> NewRunOptions(cli[p])]
    /\ obj = [p \in {1} |-> "none"]
    /\ tj = [p \in {1} |-> NoJob]
    /\ err = [p \in {1} |-> NoErrs]
    /\ out = [p \in {1} |-> <<>>]
    /\ errOut = [p \in {1} |-> <<>>]
    /\ events = [p \in {1} |-> <<>>]
    /\ sig = [p \in {1} |-> NoSig]
    /\ att = [p \in {1} |-> NoAttach]
    /\ deleted = [p \in {1} |-> FALSE]
    /\ configs = <<>>
    /\ units = <<>>

\* ------------------------------------------------- PreRunE: Validate
Validate(p) ==
    /\ pc[p] = "validate"
    /\ LET r == ValidateResult(cli[p], o[p]) IN
        /\ o' = [o EXCEPT ![p] = r.o]
        /\ err' = [err EXCEPT ![p].validate = r.err, ![p].handler = r.err]
        /\ pc' = [pc EXCEPT ![p] = IF r.err = NoErr THEN "complete" ELSE "done"]
    /\ UNCHANGED <<cli, obj, tj, out, errOut, events, sig, att, configs, units, deleted>>

\* ------------------------------------------------- RunE: Complete
\* Complete blocks on the file read and on the remote lookup, so it is taken
\* in steps; an error at any step is what RunE returns.
CompleteProgram(p) ==
    /\ pc[p] = "complete"
    /\ \E read \in ReadResults :
        LET r == PrepareProgram(o[p], read) IN
        /\ o' = [o EXCEPT ![p] = r.o]
        /\ err' = [err EXCEPT ![p].complete = r.err, ![p].handler = r.err]
        /\ pc' = [pc EXCEPT ![p] = IF r.err = NoErr THEN "namespace" ELSE "done"]
    /\ UNCHANGED <<cli, obj, tj, out, errOut, events, sig, att, configs, units, deleted>>

CompleteNamespace(p) ==
    /\ pc[p] = "namespace"
    /\ \E nsFails \in BOOLEAN :
        LET r == PrepareNamespace(o[p], nsFails) IN
        /\ o' = [o EXCEPT ![p] = r.o]
        /\ err' = [err EXCEPT ![p].complete = r.err, ![p].handler = r.err]
        /\ pc' = [pc EXCEPT ![p] = IF r.err = NoErr THEN "lookup" ELSE "done"]
    /\ UNCHANGED <<cli, obj, tj, out, errOut, events, sig, att, configs, units, deleted>>

\* the builder's Do(): the request for the target object is sent
CompleteLookup(p) ==
    /\ pc[p] = "lookup"
    /\ events' = [events EXCEPT ![p] = Append(@, "GetObject")]
    /\ pc' = [pc EXCEPT ![p] = "lookupWait"]
    /\ UNCHANGED <<cli, o, obj, tj, err, out, errOut, sig, att, configs, units, deleted>>

\* x.Object() answers; the type switch and the client configuration follow
CompleteTarget(p) ==
    /\ pc[p] = "lookupWait"
    /\ \E kind \in ObjectKinds, cfgFails \in BOOLEAN :
        LET r == ResolveTarget(o[p], kind, cfgFails) IN
        /\ o' = [o EXCEPT ![p] = r.o]
        /\ obj' = [obj EXCEPT ![p] = kind]
        /\ err' = [err EXCEPT ![p].complete = r.err, ![p].handler = r.err]
        /\ pc' = [pc EXCEPT ![p] = IF r.err = NoErr THEN "run" ELSE "done"]
    /\ UNCHANGED <<cli, tj, out, errOut, events, sig, att, configs, units, deleted>>

\* ------------------------------------------------- Run
\* the identifier, the two clients and the TraceJob; then CreateJob is called
RunStartSignalsFirst(p) ==
    /\ pc[p] = "run"
    /\ \E id \in IDs, clientFails \in BOOLEAN :
        IF clientFails
        THEN /\ err' = [err EXCEPT ![p].run = clientErrString]
             /\ pc' = [pc EXCEPT ![p] = "runReturned"]
             /\ UNCHANGED <<tj, events, sig>>
        ELSE /\ tj' = [tj EXCEPT ![p] = NewTraceJob(o[p], id)]
             /\ sig' = [sig EXCEPT ![p].installed = TRUE]
             /\ events' = [events EXCEPT ![p] = @ \o <<"SignalCtx", "CreateJob">>]
             /\ pc' = [pc EXCEPT ![p] = "createConfig"]
             /\ UNCHANGED err
    /\ UNCHANGED <<cli, o, obj, out, errOut, att, configs, units, deleted>>

RunStart(p) ==
    /\ pc[p] = "run"
    /\ \E id \in IDs, clientFails \in BOOLEAN :
        IF clientFails
        THEN /\ err' = [err EXCEPT ![p].run = clientErrString]
             /\ pc' = [pc EXCEPT ![p] = "runReturned"]
             /\ UNCHANGED <<tj, events>>
        ELSE /\ tj' = [tj EXCEPT ![p] = NewTraceJob(o[p], id)]
             /\ events' = [events EXCEPT ![p] = Append(@, "CreateJob")]
             /\ pc' = [pc EXCEPT ![p] = "createConfig"]
             /\ UNCHANGED err
    /\ UNCHANGED <<cli, o, obj, out, errOut, sig, att, configs, units, deleted>>

\* CreateJob, first remote call: the config object holding the program text
CreateConfig(p) ==
    /\ pc[p] = "createConfig"
    /\ \E rejected \in BOOLEAN :
        LET e == IF tj[p].Name \in DOMAIN configs THEN alreadyExistsErrString
                 ELSE IF rejected THEN rejectedErrString ELSE NoErr IN
        /\ events' = [events EXCEPT ![p] = Append(@, "CreateConfig")]
        /\ IF e = NoErr
           THEN /\ configs' = Put(configs, tj[p].Name, tj[p].Program)
                /\ pc' = [pc EXCEPT ![p] = "createUnit"]
                /\ UNCHANGED err
           ELSE /\ err' = [err EXCEPT ![p].create = e]
                /\ pc' = [pc EXCEPT ![p] = "created"]
                /\ UNCHANGED configs
    /\ UNCHANGED <<cli, o, obj, tj, out, errOut, sig, att, units, deleted>>

\* CreateJob, second remote call: the execution unit referencing the config object
CreateUnit(p) ==
    /\ pc[p] = "createUnit"
    /\ \E rejected \in BOOLEAN :
        LET e == IF tj[p].Name \in DOMAIN units THEN alreadyExistsErrString
                 ELSE IF rejected THEN rejectedErrString ELSE NoErr IN
        /\ events' = [events EXCEPT ![p] = Append(@, "CreateUnit")]
        /\ pc' = [pc EXCEPT ![p] = "created"]
        /\ IF e = NoErr
           THEN /\ units' = Put(units, tj[p].Name, NewUnit)
                /\ UNCHANGED err
           ELSE /\ err' = [err EXCEPT ![p].create = e]
                /\ UNCHANGED units
    /\ UNCHANGED <<cli, o, obj, tj, out, errOut, sig, att, configs, deleted>>

\* CreateJob has returned: the error is returned, else the message is printed
RunCreatedRollback(p) ==
    /\ pc[p] = "created"
    /\ IF err[p].create # NoErr
       THEN /\ err' = [err EXCEPT ![p].run = err[p].create]
            /\ pc' = [pc EXCEPT ![p] = "runReturned"]
            /\ configs' = Drop(configs, tj[p].Name)
            /\ UNCHANGED <<out, events>>
       ELSE /\ out' = [out EXCEPT ![p] = Append(@, CreatedMessage(tj[p].ID))]
            /\ events' = [events EXCEPT ![p] = Append(@, "CreatedMsg")]
            /\ pc' = [pc EXCEPT ![p] = IF o[p].attach THEN "signals" ELSE "return"]
            /\ UNCHANGED <<err, configs>>
    /\ UNCHANGED <<cli, o, obj, tj, errOut, sig, att, units, deleted>>

RunCreatedPrintFirst(p) ==
    /\ pc[p] = "created"
    /\ out' = [out EXCEPT ![p] = Append(@, CreatedMessage(tj[p].ID))]
    /\ events' = [events EXCEPT ![p] = Append(@, "CreatedMsg")]
    /\ IF err[p].create # NoErr
       THEN /\ err' = [err EXCEPT ![p].run = err[p].create]
            /\ pc' = [pc EXCEPT ![p] = "runReturned"]
       ELSE /\ pc' = [pc EXCEPT ![p] = IF o[p].attach THEN "signals" ELSE "return"]
            /\ UNCHANGED err
    /\ UNCHANGED <<cli, o, obj, tj, errOut, sig, att, configs, units, deleted>>

RunCreated(p) ==
    /\ pc[p] = "created"
    /\ IF err[p].create # NoErr
       THEN /\ err' = [err EXCEPT ![p].run = err[p].create]
            /\ pc' = [pc EXCEPT ![p] = "runReturned"]
            /\ UNCHANGED <<out, events>>
       ELSE /\ out' = [out EXCEPT ![p] = Append(@, CreatedMessage(tj[p].ID))]
            /\ events' = [events EXCEPT ![p] = Append(@, "CreatedMsg")]
            /\ pc' = [pc EXCEPT ![p] = IF o[p].attach THEN "signals" ELSE "return"]
            /\ UNCHANGED err
    /\ UNCHANGED <<cli, o, obj, tj, errOut, sig, att, configs, units, deleted>>

\* o.attach: ctx = signals.WithStandardSignals(ctx); NewAttacher; WithContext
RunInstallSignals(p) ==
    /\ pc[p] = "signals"
    /\ sig' = [sig EXCEPT ![p].installed = TRUE]
    /\ events' = [events EXCEPT ![p] = Append(@, "SignalCtx")]
    /\ pc' = [pc EXCEPT ![p] = "attachJob"]
    /\ UNCHANGED <<cli, o, obj, tj, err, out, errOut, att, configs, units, deleted>>

\* a.AttachJob(tj.ID, job.Namespace)
RunAttachJob(p) ==
    /\ pc[p] = "attachJob"
    /\ events' = [events EXCEPT ![p] = Append(@, "AttachJob")]
    /\ pc' = [pc EXCEPT ![p] = "polling"]
    /\ UNCHANGED <<cli, o, obj, tj, err, out, errOut, sig, att, configs, units, deleted>>


\* ------------------------------------------------- Attacher.AttachJob
\* One poll of the retry loop: the status is derived afresh; Pending and
\* Unknown are retried, Running proceeds to the attach, a finished unit ends it.
AttachPollEager(p) ==
    /\ pc[p] = "polling"
    /\ ~sig[p].cancelled
    /\ LET s == ExecutionStatus(units, tj[p].Name) IN
        /\ att' = [att EXCEPT ![p].lastObs = s,
                              ![p].result = IF s \in {"Succeeded", "Failed"} THEN "finished" ELSE @]
        /\ pc' = [pc EXCEPT ![p] = IF s \in {"Succeeded", "Failed"} THEN "attached" ELSE "opening"]
    /\ UNCHANGED <<cli, o, obj, tj, err, out, errOut, events, sig, configs, units, deleted>>

AttachPoll(p) ==
    /\ pc[p] = "polling"
    /\ ~sig[p].cancelled
    /\ LET s == ExecutionStatus(units, tj[p].Name) IN
        /\ att' = [att EXCEPT ![p].lastObs = s,
                              ![p].seen = IF s \in {"Pending", "Unknown"} THEN @ \cup {s} ELSE @,
                              ![p].result = IF s \in {"Succeeded", "Failed"} THEN "finished" ELSE @]
        /\ pc' = [pc EXCEPT ![p] = CASE s \in {"Pending", "Unknown"} -> "polling"
                                     [] s = "Running" -> "opening"
                                     [] OTHER -> "attached"]
    /\ UNCHANGED <<cli, o, obj, tj, err, out, errOut, events, sig, configs, units, deleted>>

\* The attach call against the backing container. A container that exited
\* since it was observed makes the attach fail softly.
AttachOpen(p) ==
    /\ pc[p] = "opening"
    /\ ~sig[p].cancelled
    /\ LET s == ExecutionStatus(units, tj[p].Name) IN
        /\ att' = [att EXCEPT ![p].opened = TRUE, ![p].openStatus = s,
                              ![p].result = IF s = "Running" THEN @ ELSE "could not attach"]
        /\ events' = [events EXCEPT ![p] = Append(@, "OpenStream")]
        /\ pc' = [pc EXCEPT ![p] = IF s = "Running" THEN "relaying" ELSE "attached"]
    /\ UNCHANGED <<cli, o, obj, tj, err, out, errOut, sig, configs, units, deleted>>

\* The relay ends when the remote stream closes: the process has exited
AttachEndOfStream(p) ==
    /\ pc[p] = "relaying"
    /\ ~sig[p].cancelled
    /\ ExecutionStatus(units, tj[p].Name) \in {"Succeeded", "Failed"}
    /\ att' = [att EXCEPT ![p].result = "end of stream"]
    /\ pc' = [pc EXCEPT ![p] = "attached"]
    /\ UNCHANGED <<cli, o, obj, tj, err, out, errOut, events, sig, configs, units, deleted>>

\* The cancellation token unwinds every blocking point of the Attacher
AttachCancelled(p) ==
    /\ pc[p] \in {"polling", "opening", "relaying"}
    /\ sig[p].cancelled
    /\ att' = [att EXCEPT ![p].result = "cancelled"]
    /\ pc' = [pc EXCEPT ![p] = "attached"]
    /\ UNCHANGED <<cli, o, obj, tj, err, out, errOut, events, sig, configs, units, deleted>>

\* ------------------------------------------------- Run returns nil
RunReturnCtxErr(p) ==
    /\ pc[p] \in {"return", "attached"}
    /\ err' = [err EXCEPT ![p].run = IF sig[p].cancelled THEN "context canceled" ELSE NoErr]
    /\ pc' = [pc EXCEPT ![p] = "runReturned"]
    /\ UNCHANGED <<cli, o, obj, tj, out, errOut, events, sig, att, configs, units, deleted>>

RunReturn(p) ==
    /\ pc[p] \in {"return", "attached"}
    /\ err' = [err EXCEPT ![p].run = NoErr]
    /\ pc' = [pc EXCEPT ![p] = "runReturned"]
    /\ UNCHANGED <<cli, o, obj, tj, out, errOut, events, sig, att, configs, units, deleted>>

\* ------------------------------------------------- RunE after Run
\* an error of Run is printed on ErrOut and the handler returns nil
RunEReturn(p) ==
    /\ pc[p] = "runReturned"
    /\ errOut' = [errOut EXCEPT ![p] = IF err[p].run # NoErr THEN Append(@, err[p].run) ELSE @]
    /\ err' = [err EXCEPT ![p].handler = NoErr]
    /\ pc' = [pc EXCEPT ![p] = "done"]
    /\ UNCHANGED <<cli, o, obj, tj, out, events, sig, att, configs, units, deleted>>

\* ------------------------------------------------- interrupt signals
\* Without the signal context the runtime's default disposition ends the
\* process. With it, the first signal activates the cancellation token and
\* a second one exits at once.
Interrupt(p) ==
    /\ pc[p] \notin {"done", "killed"}
    /\ IF sig[p].installed /\ ~sig[p].cancelled
       THEN /\ sig' = [sig EXCEPT ![p].cancelled = TRUE, ![p].at = pc[p]]
            /\ UNCHANGED pc
       ELSE /\ sig' = [sig EXCEPT ![p].at = IF @ = "none" THEN pc[p] ELSE @]
            /\ pc' = [pc EXCEPT ![p] = "killed"]
    /\ UNCHANGED <<cli, o, obj, tj, err, out, errOut, events, att, configs, units, deleted>>

\* ------------------------------------------------- the control plane acts
UnitVisible(n) ==
    /\ n \in DOMAIN units
    /\ ~units[n].visible
    /\ units' = [units EXCEPT ![n].visible = TRUE]
    /\ UNCHANGED <<cli, pc, o, obj, tj, err, out, errOut, events, sig, att, configs, deleted>>

UnitScheduled(n) ==
    /\ n \in DOMAIN units
    /\ units[n].phase = "Pending"
    /\ units[n].conditions = {}
    /\ units' = [units EXCEPT ![n].phase = "Running"]
    /\ UNCHANGED <<cli, pc, o, obj, tj, err, out, errOut, events, sig, att, configs, deleted>>

UnitFinished(n) ==
    /\ n \in DOMAIN units
    /\ units[n].conditions = {}
    /\ \E c \in {"Complete", "Failed"} :
        /\ c = "Complete" => units[n].phase = "Running"
        /\ units' = [units EXCEPT ![n].conditions = {c},
                                  ![n].phase = IF c = "Complete" THEN "Succeeded" ELSE "Failed"]
    /\ UNCHANGED <<cli, pc, o, obj, tj, err, out, errOut, events, sig, att, configs, deleted>>

\* ------------------------------------------------- explicit DeleteJobs
\* Issued by the caller after the run command ended. Both deletions are
\* attempted, each may fail, deleting an absent object is not an error.
DeleteJobs(p) ==
    /\ pc[p] = "done"
    /\ tj[p].built
    /\ \E unitFails \in BOOLEAN, configFails \in BOOLEAN :
        /\ units' = IF unitFails THEN units ELSE Drop(units, tj[p].Name)
        /\ configs' = IF configFails THEN configs ELSE Drop(configs, tj[p].Name)
    /\ deleted' = [deleted EXCEPT ![p] = TRUE]
    /\ UNCHANGED <<cli, pc, o, obj, tj, err, out, errOut, events, sig, att>>

\* ------------------------------------------------- one invocation
Next ==
    \/ \E p \in DOMAIN pc : Validate(p)
    \/ \E p \in DOMAIN pc : CompleteProgram(p)
    \/ \E p \in DOMAIN pc : CompleteNamespace(p)
    \/ \E p \in DOMAIN pc : CompleteLookup(p)
    \/ \E p \in DOMAIN pc : CompleteTarget(p)
    \/ \E p \in DOMAIN pc : RunStart(p)
    \/ \E p \in DOMAIN pc : CreateConfig(p)
    \/ \E p \in DOMAIN pc : CreateUnit(p)
    \/ \E p \in DOMAIN pc : RunCreated(p)
    \/ \E p \in DOMAIN pc : RunInstallSignals(p)
    \/ \E p \in DOMAIN pc : RunAttachJob(p)
    \/ \E p \in DOMAIN pc : AttachPoll(p)
    \/ \E p \in DOMAIN pc : AttachOpen(p)
    \/ \E p \in DOMAIN pc : AttachEndOfStream(p)
    \/ \E p \in DOMAIN pc : AttachCancelled(p)
    \/ \E p \in DOMAIN pc : RunReturn(p)
    \/ \E p \in DOMAIN pc : RunEReturn(p)
    \/ \E p \in DOMAIN pc : Interrupt(p)
    \/ \E p \in DOMAIN pc : DeleteJobs(p)
    \/ \E n \in DOMAIN units : UnitVisible(n)
    \/ \E n \in DOMAIN units : UnitScheduled(n)
    \/ \E n \in DOMAIN units : UnitFinished(n)

Spec == Init /\ [][Next]_vars

\* ------------------------------------------------- two concurrent runs
\* Two invocations without --attach that passed Validate and Complete and are
\* about to enter Run against the same, empty, namespace of the control plane.
ReadyCommandLines ==
    {c \in CommandLines :
        /\ WellFormedCommandLine(c)
        /\ c.evalChanged
        /\ ~c.attach
        /\ Len(c.args) = 1
        /\ ~c.containerChanged
        /\ ValidateResult(c, NewRunOptions(c)).err = NoErr}

ReadyOptions(c) ==
    CompleteResult(ValidateResult(c, NewRunOptions(c)).o, ReadErr, FALSE, "node", FALSE).o

InitConc ==
    /\ cli \in [Procs -> ReadyCommandLines]
    /\ pc = [p \in Procs |-> "run"]
    /\ o = [p \in Procs |-> ReadyOptions(cli[p])]
    /\ obj = [p \in Procs |-> "node"]
    /\ tj = [p \in Procs |-> NoJob]
    /\ err = [p \in Procs |-> NoErrs]
    /\ out = [p \in Procs |-> <<>>]
    /\ errOut = [p \in Procs |-> <<>>]
    /\ events = [p \in Procs |-> <<"GetObject">>]
    /\ sig = [p \in Procs |-> NoSig]
    /\ att = [p \in Procs |-> NoAttach]
    /\ deleted = [p \in Procs |-> FALSE]
    /\ configs = <<>>
    /\ units = <<>>

NextConc ==
    \/ \E p \in DOMAIN pc : RunStart(p)
    \/ \E p \in DOMAIN pc : CreateConfig(p)
    \/ \E p \in DOMAIN pc : CreateUnit(p)
    \/ \E p \in DOMAIN pc : RunCreated(p)
    \/ \E p \in DOMAIN pc : RunReturn(p)
    \/ \E p \in DOMAIN pc : RunEReturn(p)
    \/ \E p \in DOMAIN pc : Interrupt(p)
    \/ \E n \in DOMAIN units : UnitVisible(n)
    \/ \E n \in DOMAIN units : UnitScheduled(n)
    \/ \E n \in DOMAIN units : UnitFinished(n)

SpecConc == InitConc /\ [][NextConc]_vars


\* =================================================== properties
Range(s) == {s[i] : i \in DOMAIN s}
Returned(p) == pc[p] \in {"runReturned", "done"}
IsRunEvent(e) == e \in {"CreateJob", "CreatedMsg", "SignalCtx", "AttachJob"}
IsPrefix(s, t) == Len(s) <= Len(t) /\ \A i \in DOMAIN s : s[i] = t[i]

\* C1: an empty program text, from --eval or from the file named by
\* --filename, is refused before any remote call: CreateJob is never invoked
\* with an empty Program and no remote object holds an empty program.
C1_EmptyProgramNeverCreated ==
    \A p \in DOMAIN pc :
        /\ "CreateJob" \in Range(events[p]) => tj[p].Program # <<>>
        /\ tj[p].Name \in DOMAIN configs => configs[tj[p].Name] # <<>>

\* C2: an interrupt that arrives while Run waits for the acknowledgement of
\* CreateJob (config object or execution unit) for a non-empty program
\* activates the cancellation token, which unblocks the wait.
C2_InterruptDuringCreateCancels ==
    \A p \in DOMAIN pc :
        sig[p].at \in {"createConfig", "createUnit"} /\ tj[p].Program # <<>> =>
            sig[p].cancelled /\ pc[p] # "killed"

\* C3: with --attach, no attach stream is opened while the derived status is
\* Pending or Unknown; the attach is attempted once Running was observed, and
\* the earlier Pending or Unknown observations surface no error.
C3_AttachOnlyWhenRunning ==
    \A p \in DOMAIN pc :
        /\ pc[p] = "opening" =>
              /\ att[p].lastObs = "Running"
              /\ ExecutionStatus(units, tj[p].Name) \notin {"Pending", "Unknown"}
        /\ att[p].opened =>
              /\ att[p].lastObs = "Running"
              /\ att[p].openStatus \notin {"Pending", "Unknown"}
        /\ att[p].lastObs \in {"Pending", "Unknown"} => pc[p] \in {"polling", "attached", "runReturned", "done", "killed"} /\ ~att[p].opened
        /\ att[p].seen # {} => att[p].err = NoErr /\ err[p].run = NoErr /\ errOut[p] = <<>>

C3_Witness ==
    \E p \in DOMAIN pc :
        /\ pc[p] = "relaying"
        /\ att[p].opened
        /\ att[p].openStatus = "Running"
        /\ att[p].seen = {"Unknown", "Pending"}

\* C4: an interrupt delivered while the attached stream is relayed ends the
\* attach without an error, Run returns nil, nothing is written to the error
\* stream, and unless a DeleteJobs was issued separately the execution unit
\* and the config object still exist.
C4_InterruptMidStream ==
    \A p \in DOMAIN pc :
        sig[p].at = "relaying" /\ pc[p] \in {"attached", "runReturned", "done"} =>
            /\ att[p].result = "cancelled"
            /\ att[p].err = NoErr
            /\ Returned(p) => err[p].run = NoErr
            /\ pc[p] = "done" => errOut[p] = <<>> /\ err[p].handler = NoErr
            /\ ~deleted[p] => tj[p].Name \in DOMAIN configs /\ tj[p].Name \in DOMAIN units

C4_Witness ==
    \E p \in DOMAIN pc :
        /\ pc[p] = "done"
        /\ sig[p].at = "relaying"
        /\ sig[p].cancelled
        /\ ~deleted[p]
        /\ tj[p].Name \in DOMAIN units

\* C5: when the creation of the execution unit fails after the config object
\* was created, CreateJob returns the error, Run returns that error, and the
\* config object stays without its unit until an explicit DeleteJobs.
C5_PartialCreationLeftInPlace ==
    \A p \in DOMAIN pc :
        err[p].create # NoErr /\ "CreateUnit" \in Range(events[p]) =>
            /\ Returned(p) => err[p].run = err[p].create
            /\ ~deleted[p] => tj[p].Name \in DOMAIN configs /\ tj[p].Name \notin DOMAIN units

C5_Witness ==
    \E p \in DOMAIN pc :
        /\ pc[p] = "done"
        /\ err[p].create = rejectedErrString
        /\ "CreateUnit" \in Range(events[p])
        /\ ~deleted[p]
        /\ tj[p].Name \in DOMAIN configs
        /\ tj[p].Name \notin DOMAIN units

\* C6: once the clients are built Run calls CreateJob exactly once; the
\* message "trace <ID> created" is on the output stream exactly when CreateJob
\* succeeded, and otherwise the CreateJob error is what Run returns and what
\* the handler writes to the error stream.
C6_CreateOutcome ==
    \A p \in DOMAIN pc :
        /\ Len(SelectSeq(events[p], LAMBDA e : e = "CreateJob")) = IF tj[p].built THEN 1 ELSE 0
        /\ Len(out[p]) <= 1
        /\ out[p] # <<>> => out[p] = <<CreatedMessage(tj[p].ID)>> /\ err[p].create = NoErr
                            /\ "CreateUnit" \in Range(events[p])
        /\ tj[p].built /\ Returned(p) =>
              /\ out[p] # <<>> <=> err[p].create = NoErr
              /\ err[p].create # NoErr => err[p].run = err[p].create
        /\ tj[p].built /\ pc[p] = "done" =>
              errOut[p] = IF err[p].create # NoErr THEN <<err[p].create>> ELSE <<>>

C6_Witness ==
    \E p \in DOMAIN pc :
        /\ pc[p] = "done"
        /\ tj[p].built
        /\ err[p].create = rejectedErrString
        /\ errOut[p] = <<rejectedErrString>>
        /\ out[p] = <<>>

\* C7: the Name is the prefix followed by the ID, distinct IDs give distinct
\* Names, and of two concurrent runs with distinct IDs neither fails with
\* "already exists".
C7_DistinctNames ==
    /\ \A i, j \in IDs : i # j => TraceJobName(i) # TraceJobName(j)
    /\ \A p, q \in DOMAIN pc :
        tj[p].built /\ tj[q].built /\ tj[p].ID # tj[q].ID =>
            /\ tj[p].Name = ObjectNamePrefix \o tj[p].ID
            /\ tj[p].Name # tj[q].Name
            /\ err[p].create # alreadyExistsErrString

C7_Witness ==
    \E p, q \in DOMAIN pc :
        /\ tj[p].built /\ tj[q].built
        /\ tj[p].ID # tj[q].ID
        /\ pc[p] = "done" /\ pc[q] = "done"
        /\ out[p] # <<>> /\ out[q] # <<>>
        /\ tj[p].Name \in DOMAIN units /\ tj[q].Name \in DOMAIN units

\* C8 as stated: a target that is a node without the hostname label, a pod
\* or another kind is refused before any remote call.
C8_TargetErrorBeforeAnyRemoteCall ==
    \A p \in DOMAIN pc :
        err[p].complete \in {labelMissingErrString, podUnsupportedErrString, firstArgErrString} =>
            events[p] = <<>>

\* C8 amended: such a target is refused after the read-only lookup of the
\* target object, which is the only remote call made: Run is not executed,
\* CreateJob is never called and no remote object exists.
C8_TargetErrorBeforeCreate ==
    \A p \in DOMAIN pc :
        obj[p] \in {"nodeNoLabel", "pod", "other"} =>
            /\ err[p].complete = CASE obj[p] = "nodeNoLabel" -> labelMissingErrString
                                   [] obj[p] = "pod" -> podUnsupportedErrString
                                   [] OTHER -> firstArgErrString
            /\ err[p].handler = err[p].complete
            /\ pc[p] = "done"
            /\ events[p] = <<"GetObject">>
            /\ ~tj[p].built
            /\ out[p] = <<>>
            /\ configs = <<>> /\ units = <<>>

C8_Witness ==
    \E p \in DOMAIN pc :
        /\ obj[p] = "nodeNoLabel"
        /\ pc[p] = "done"
        /\ err[p].complete = labelMissingErrString

\* C9: Run does CreateJob, the created message, the signal context and
\* AttachJob in this order; the last two only with the attach flag set and a
\* successful CreateJob. Otherwise no signal handling and no stream.
C9_RunOrder ==
    \A p \in DOMAIN pc :
        /\ IsPrefix(SelectSeq(events[p], IsRunEvent), <<"CreateJob", "CreatedMsg", "SignalCtx", "AttachJob">>)
        /\ sig[p].installed <=> "SignalCtx" \in Range(events[p])
        /\ "SignalCtx" \in Range(events[p]) =>
              o[p].attach /\ err[p].create = NoErr /\ "CreateUnit" \in Range(events[p])
        /\ ~o[p].attach \/ err[p].create # NoErr =>
              /\ ~sig[p].installed
              /\ "AttachJob" \notin Range(events[p])
              /\ "OpenStream" \notin Range(events[p])
              /\ ~att[p].opened
        /\ "CreatedMsg" \in Range(events[p]) <=> out[p] # <<>>

C9_Witness ==
    \E p \in DOMAIN pc :
        /\ pc[p] = "done"
        /\ SelectSeq(events[p], IsRunEvent) = <<"CreateJob", "CreatedMsg", "SignalCtx", "AttachJob">>
        /\ att[p].opened

\* C10: Validate returns nil exactly when there are 1 or 2 arguments, the
\* container is not given twice, exactly one of --eval and --filename is set
\* and its value is not empty; otherwise the first failing check, in the
\* order required argument, container given twice, program missing, program
\* given twice, program empty, gives the error.
ExpectedValidateErr(c) ==
    IF Len(c.args) \notin {1, 2} THEN requiredArgErrString
    ELSE IF Len(c.args) = 2 /\ c.containerChanged THEN containerAsArgOrFlagErrString
    ELSE IF ~c.evalChanged /\ ~c.filenameChanged THEN bpftraceMissingErrString
    ELSE IF c.evalChanged /\ c.filenameChanged THEN bpftraceDoubleErrString
    ELSE IF c.evalChanged /\ c.eval = <<>> THEN bpftraceEmptyErrString
    ELSE IF c.filenameChanged /\ c.filename = <<>> THEN bpftraceEmptyErrString
    ELSE NoErr

C10_ValidateChecks ==
    \A p \in DOMAIN pc :
        pc[p] # "validate" /\ sig[p].at # "validate" =>
            /\ err[p].validate = ExpectedValidateErr(cli[p])
            /\ err[p].validate # NoErr => pc[p] = "done" /\ err[p].handler = err[p].validate
            /\ err[p].validate = bpftraceDoubleErrString => cli[p].evalChanged /\ cli[p].filenameChanged

C10_Witness ==
    \E p \in DOMAIN pc :
        /\ pc[p] = "done"
        /\ cli[p].evalChanged /\ cli[p].filenameChanged
        /\ cli[p].eval = <<>>
        /\ err[p].validate = bpftraceDoubleErrString

====
